---- MODULE Spec2Model ----
(***************************************************************************)
(* A model of teeproxy (src/teeproxy.go): the Tee stream wrapper, its      *)
(* Close/drain/linger protocol, the sync.Pool of Tee instances, the        *)
(* connector TeeConnectTimeout and the bidirectional pump HandleTCP.       *)
(*                                                                         *)
(* Every goroutine of the program is a task of the model and every source  *)
(* line that reads or writes state shared between goroutines is one step.  *)
(* Timers (time.After) may fire at any moment.  Streams are named by the   *)
(* connection that dialled them: a[c] and b[c] are the sockets connection  *)
(* c opened to the backends A and B, and the bufio.Writer NewTee creates   *)
(* around b[c] is buf[c].                                                  *)
(***************************************************************************)
EXTENDS Integers, Sequences, FiniteSets, TLC

\* ---------------------------------------------------------------- bounds
\* connections accepted in one run
NumConns == 3
\* bytes the clients write in one run
MaxBytes == 2
\* bytes the A backends answer in one run
MaxA == 1
\* bytes the B backends answer in one run
MaxB == 1
\* capacity of the bufio.Writer around B (bufio's default is 4096, scaled)
BufSize == 1
\* connections of the runs in which the clients write (SpecUp)
UpConns == 2

\* ------------------------------------------------------------- constants
\* len(garbage): make([]byte, 64*1024)
GarbageLen == 65536
\* durations in milliseconds: the flags -timeout (1*time.Second) and
\* -deadline (100*time.Millisecond), and the literal 500*time.Second of the
\* dial to A
timeout == 1000
deadline == 100
dialTimeoutA == 500000
\* lengths of the buffer a caller passes to Tee.Read
ReadLens == {0, 1, GarbageLen - 1, GarbageLen, GarbageLen + 1, 2 * GarbageLen}

Conns == 1..NumConns
\* sync.Pool's New can always allocate: one instance per connection suffices
Tees == 1..NumConns
\* the goroutines of a connection that call Close on the upstream stream:
\* the handler (H), the client->upstream pump (CS), the upstream->client
\* pump (SC); W is the goroutine that waits for both pumps
Closers == {"H", "CS", "SC"}
Tasks == {"H", "CS", "SC", "W"}

VARIABLES
  pc,          \* [Conns -> [Tasks -> STRING]]: position of every task
  wg,          \* sync.WaitGroup counter of HandleTCP
  outTee,      \* the stream `out` of the connection: a Tee instance, 0 = bare A
  chunk,       \* io.Copy's buffer of each pump: the bytes of its last Read
  rdA,         \* the A stream the pump SC's t.a.Read(p) is blocked on
  wrB,         \* the bufio.Writer the pump CS's t.buf.Write(p) is blocked in
  connIn,      \* client socket: bytes written by the client, not yet read
  cliSent,     \* number of bytes the client has written
  cliEOF,      \* the client closed its end
  connClosed,  \* conn.Close() was called
  cliRecv,     \* bytes delivered to the client
  aState,      \* A socket: "none" (not dialled), "open", "closed" (Close called)
  aOut,        \* bytes A has answered, not yet read
  aSent,       \* number of bytes A has answered
  aEOF,        \* A closed its end
  aRecv,       \* bytes delivered to A
  bState,      \* B socket: "none", "open", "closed"
  bOut,        \* bytes B has answered, not yet read
  bSent,       \* number of bytes B has answered
  bEOF,        \* B closed its end or reset the connection
  bStall,      \* B never accepts a byte: writes to it block
  bRecv,       \* bytes delivered to B
  bCloses,     \* number of Close calls made on the B socket
  tA, tB,      \* Tee.a, Tee.b (and Tee.buf, the writer around the same b)
  tClosed,     \* Tee.closed
  pool,        \* teePool: how many times each instance is in the pool
  nTees,       \* instances allocated by teePool.New so far
  buf,         \* bufio.Writer: the buffered bytes (buf[0:n])
  bufErr,      \* bufio.Writer: the sticky error
  flPending,   \* goroutines `go t.buf.Flush()` spawned and not yet run
  flInflight,  \* Flush calls whose wr.Write returned and that have not set n = 0
  bReaders,    \* goroutines `go t.b.Read(garbage[..])` blocked in Read
  garbage,     \* the package-level scratch buffer: the bytes last read into it
  dPc,         \* drain goroutine started by a Close call: its position
  dTee,        \* the Tee the drain goroutine captured
  dCopy,       \* the inner goroutine io.Copy(ioutil.Discard, t.b): its position
  dCopyB,      \* the B socket the inner goroutine reads from
  dB,          \* (observation) the B socket that was t.b when Close started
               \* the drain goroutine
  \* ---- history variables (observations only, no action reads them)
  foreignOps,  \* kinds of Tee operation performed by a connection on an instance
               \* that NewTee has since handed to another connection
  gets,        \* teePool.Get calls made for the connection
  bDialed,     \* the connection dialled B
  drains,      \* drain goroutines started on the instance since its acquisition
  puts,        \* teePool.Put calls on the instance since its acquisition
  retDiff      \* Tee operations that returned something else than what the
               \* operation on A returned

vars == <<pc, wg, outTee, chunk, rdA, wrB, connIn, cliSent, cliEOF, connClosed,
          cliRecv, aState, aOut, aSent, aEOF, aRecv, bState, bOut, bSent, bEOF,
          bStall, bRecv, bCloses, tA, tB, tClosed, pool, nTees, buf, bufErr,
          flPending, flInflight, bReaders, garbage, dPc, dTee, dCopy, dCopyB,
          dB, foreignOps, gets, bDialed, drains, puts, retDiff>>

\* groups used in UNCHANGED
cliVars  == <<connIn, cliSent, cliEOF, connClosed, cliRecv>>
aVars    == <<aState, aOut, aSent, aEOF, aRecv>>
bVars    == <<bState, bOut, bSent, bEOF, bStall, bRecv, bCloses>>
teeVars  == <<tA, tB, tClosed, pool, nTees>>
teeVars_noPool == <<tA, tB, tClosed, nTees>>
bufVars  == <<buf, bufErr, flPending, flInflight>>
drVars   == <<dPc, dTee, dCopy, dCopyB, dB>>
pumpVars == <<chunk, rdA, wrB>>
histVars == <<foreignOps, gets, bDialed, drains, puts, retDiff>>

\* ---------------------------------------------------------------- data
\* the i-th byte written by the client of connection c, answered by A, by B
CliByte(c, i) == <<"c", c, i>>
AByte(c, i) == <<"a", c, i>>
BByte(c, i) == <<"b", c, i>>
CliBytes(c, n) == [i \in 1..n |-> CliByte(c, i)]
ABytes(c, n) == [i \in 1..n |-> AByte(c, i)]

RECURSIVE SumTo(_, _)
SumTo(f, n) == IF n = 0 THEN 0 ELSE f[n] + SumTo(f, n - 1)
\* the bytes sent so far on all connections, given the count of each
Total(f) == SumTo(f, NumConns)

IsPrefix(s, t) == Len(s) <= Len(t) /\ \A i \in 1..Len(s) : s[i] = t[i]

\* a (count, error) pair
Pair(n, e) == [n |-> n, err |-> e]

Init ==
  /\ pc = [c \in Conns |-> [r \in Tasks |-> "idle"]]
  /\ wg = [c \in Conns |-> 0]
  /\ outTee = [c \in Conns |-> 0]
  /\ chunk = [c \in Conns |-> [r \in {"CS", "SC"} |-> <<>>]]
  /\ rdA = [c \in Conns |-> 0]
  /\ wrB = [c \in Conns |-> 0]
  /\ connIn = [c \in Conns |-> <<>>]
  /\ cliSent = [c \in Conns |-> 0]
  /\ cliEOF = [c \in Conns |-> FALSE]
  /\ connClosed = [c \in Conns |-> FALSE]
  /\ cliRecv = [c \in Conns |-> <<>>]
  /\ aState = [c \in Conns |-> "none"]
  /\ aOut = [c \in Conns |-> <<>>]
  /\ aSent = [c \in Conns |-> 0]
  /\ aEOF = [c \in Conns |-> FALSE]
  /\ aRecv = [c \in Conns |-> <<>>]
  /\ bState = [c \in Conns |-> "none"]
  /\ bOut = [c \in Conns |-> <<>>]
  /\ bSent = [c \in Conns |-> 0]
  /\ bEOF = [c \in Conns |-> FALSE]
  /\ bStall = [c \in Conns |-> FALSE]
  /\ bRecv = [c \in Conns |-> <<>>]
  /\ bCloses = [c \in Conns |-> 0]
  /\ tA = [t \in Tees |-> 0]
  /\ tB = [t \in Tees |-> 0]
  /\ tClosed = [t \in Tees |-> FALSE]
  /\ pool = [t \in Tees |-> 0]
  /\ nTees = 0
  /\ buf = [c \in Conns |-> <<>>]
  /\ bufErr = [c \in Conns |-> FALSE]
  /\ flPending = [c \in Conns |-> 0]
  /\ flInflight = [c \in Conns |-> 0]
  /\ bReaders = [c \in Conns |-> 0]
  /\ garbage = <<>>
  /\ dPc = [c \in Conns |-> [r \in Closers |-> "none"]]
  /\ dTee = [c \in Conns |-> [r \in Closers |-> 0]]
  /\ dCopy = [c \in Conns |-> [r \in Closers |-> "none"]]
  /\ dCopyB = [c \in Conns |-> [r \in Closers |-> 0]]
  /\ dB = [c \in Conns |-> [r \in Closers |-> 0]]
  /\ foreignOps = {}
  /\ gets = [c \in Conns |-> 0]
  /\ bDialed = [c \in Conns |-> FALSE]
  /\ drains = [t \in Tees |-> 0]
  /\ puts = [t \in Tees |-> 0]
  /\ retDiff = {}

\* ------------------------------------------------------------ connector
\* main's accept loops (lines 239-249): ln.Accept() returns a connection and
\* `go tee(conn)` starts.  Connections are interchangeable, so they are
\* numbered in the order they are accepted.
\* TeeConnectTimeout, lines 172-180: net.DialTimeout to A; on an error the
\* function returns it at once
DialA(c, ok) ==
  /\ pc[c]["H"] = "idle"
  /\ IF c = 1 THEN TRUE ELSE pc[c - 1]["H"] # "idle"
  /\ aState' = [aState EXCEPT ![c] = IF ok THEN "open" ELSE "none"]
  /\ pc' = [pc EXCEPT ![c]["H"] = IF ok THEN "dialB" ELSE "abort"]
  /\ UNCHANGED <<wg, outTee, pumpVars, cliVars, aOut, aSent, aEOF, aRecv, bVars,
                 teeVars, bufVars, bReaders, garbage, drVars, histVars>>

DialAOk(c) == DialA(c, TRUE)

\* TeeConnectTimeout, lines 174 and 184: the longest time tee can have held
\* the client connection when the handler is where it is: net.DialTimeout
\* returns within its timeout, whether it succeeds or fails
ConnectTime(c) ==
  IF pc[c]["H"] = "idle" THEN 0
  ELSE IF pc[c]["H"] \in {"dialB", "abort"} THEN dialTimeoutA
  ELSE IF aState[c] = "none" THEN dialTimeoutA
  ELSE dialTimeoutA + deadline
\* a connector that goes on to dial B after the dial to A failed
DialAFailGoesOn(c) ==
  /\ pc[c]["H"] = "idle"
  /\ pc' = [pc EXCEPT ![c]["H"] = "dialB"]
  /\ UNCHANGED <<wg, outTee, pumpVars, cliVars, aVars, bVars, teeVars, bufVars,
                 bReaders, garbage, drVars, histVars>>

DialAFail(c) == DialA(c, FALSE)

\* tee, lines 203-207: err != nil: conn.Close() and return, HandleTCP not run
Abort(c) ==
  /\ pc[c]["H"] = "abort"
  /\ connClosed' = [connClosed EXCEPT ![c] = TRUE]
  /\ pc' = [pc EXCEPT ![c]["H"] = "ret"]
  /\ UNCHANGED <<wg, outTee, pumpVars, connIn, cliSent, cliEOF, cliRecv, aVars,
                 bVars, teeVars, bufVars, bReaders, garbage, drVars, histVars>>

\* teePool.Get(): sync.Pool returns any pooled instance, or (the pool may have
\* been emptied by the collector, or be empty) a new one from New
PoolGet(t) ==
  \/ /\ pool[t] > 0
     /\ pool' = [pool EXCEPT ![t] = @ - 1]
     /\ nTees' = nTees
  \/ /\ t = nTees + 1
     /\ nTees' = t
     /\ pool' = pool

\* NewTee, lines 104-111
NewTee(c, t) ==
  /\ PoolGet(t)
  /\ tClosed' = [tClosed EXCEPT ![t] = FALSE]
  /\ tA' = [tA EXCEPT ![t] = c]
  /\ tB' = [tB EXCEPT ![t] = c]
  /\ outTee' = [outTee EXCEPT ![c] = t]
  /\ gets' = [gets EXCEPT ![c] = @ + 1]
  /\ drains' = [drains EXCEPT ![t] = 0]
  /\ puts' = [puts EXCEPT ![t] = 0]

\* TeeConnectTimeout, lines 182-193: net.DialTimeout to B within *deadline;
\* on success out = NewTee(out, b), else err = nil and out stays the A stream.
\* Then tee calls HandleTCP (line 210), whose lines 117-144 do wg.Add(2) and
\* start the goroutine that starts both pumps and waits for them.
DialB(c, ok, t) ==
  /\ pc[c]["H"] = "dialB"
  /\ IF ok
     THEN /\ bState' = [bState EXCEPT ![c] = "open"]
          /\ NewTee(c, t)
     ELSE UNCHANGED <<bState, teeVars, outTee, gets, drains, puts>>
  /\ bDialed' = [bDialed EXCEPT ![c] = TRUE]
  /\ wg' = [wg EXCEPT ![c] = 2]
  /\ pc' = [pc EXCEPT ![c] = [H |-> "select", CS |-> "rd", SC |-> "rd", W |-> "wait"]]
  /\ UNCHANGED <<pumpVars, cliVars, aVars, bOut, bSent, bEOF, bStall, bRecv,
                 bCloses, bufVars, bReaders, garbage, drVars, foreignOps, retDiff>>

DialBOk(c) == \E t \in Tees : DialB(c, TRUE, t)
\* a connector that wraps the A stream in a Tee although B was not reached
DialBFailTee(c) ==
  /\ pc[c]["H"] = "dialB"
  /\ \E t \in Tees : NewTee(c, t)
  /\ bDialed' = [bDialed EXCEPT ![c] = TRUE]
  /\ wg' = [wg EXCEPT ![c] = 2]
  /\ pc' = [pc EXCEPT ![c] = [H |-> "select", CS |-> "rd", SC |-> "rd", W |-> "wait"]]
  /\ UNCHANGED <<pumpVars, cliVars, aVars, bVars, bufVars, bReaders, garbage,
                 drVars, foreignOps, retDiff>>

DialBFail(c) == DialB(c, FALSE, 0)

\* the runs in which teePool.Get returns a pooled instance whenever the pool
\* holds one
PoolHolds == \E t \in Tees : pool[t] > 0
DialBOkPooled(c) ==
  \E t \in Tees : (PoolHolds => pool[t] > 0) /\ DialB(c, TRUE, t)

\* ------------------------------------------------------------ HandleTCP
\* lines 142-143 and 147-149: wg.Wait() returns once both pumps called
\* wg.Done(); the unbuffered send c <- struct{}{} and the receive of
\* `case <-c` happen together
SelectDone(c) ==
  /\ pc[c]["H"] = "select"
  /\ pc[c]["W"] = "wait"
  /\ wg[c] = 0
  /\ pc' = [pc EXCEPT ![c]["H"] = "cconn", ![c]["W"] = "done"]
  /\ UNCHANGED <<wg, outTee, pumpVars, cliVars, aVars, bVars, teeVars, bufVars,
                 bReaders, garbage, drVars, histVars>>

\* lines 150-151: case <-time.After(*timeout)
SelectTimeout(c) ==
  /\ pc[c]["H"] = "select"
  /\ pc' = [pc EXCEPT ![c]["H"] = "cconn"]
  /\ UNCHANGED <<wg, outTee, pumpVars, cliVars, aVars, bVars, teeVars, bufVars,
                 bReaders, garbage, drVars, histVars>>

\* conn.Close(): line 155 (H), line 126 (CS), line 137 (SC).  The pump SC
\* calls it last and then wg.Done() (line 139).
CloseConn(c, r) ==
  /\ pc[c][r] = "cconn"
  /\ connClosed' = [connClosed EXCEPT ![c] = TRUE]
  /\ IF r = "SC"
     THEN /\ pc' = [pc EXCEPT ![c][r] = "done"]
          /\ wg' = [wg EXCEPT ![c] = @ - 1]
     ELSE /\ pc' = [pc EXCEPT ![c][r] = "oc_chk"]
          /\ wg' = wg
  /\ UNCHANGED <<outTee, pumpVars, connIn, cliSent, cliEOF, cliRecv, aVars, bVars,
                 teeVars, bufVars, bReaders, garbage, drVars, histVars>>

\* ------------------------------------------------------------ Tee.Close
\* where a task continues after out.Close() returned: the handler returns
\* (line 157), the pump CS calls wg.Done() (line 129), the pump SC goes on to
\* conn.Close() (line 137)
AfterClose(r) == IF r = "H" THEN "ret" ELSE IF r = "CS" THEN "done" ELSE "cconn"

Leave(c, r) ==
  /\ pc' = [pc EXCEPT ![c][r] = AfterClose(r)]
  /\ wg' = IF r = "CS" THEN [wg EXCEPT ![c] = @ - 1] ELSE wg

\* a Tee operation by connection c on instance t, noted when c is not the
\* connection NewTee last gave t to (NewTee sets t.a to that connection's A)
Foreign(c, t, op) == IF tA[t] = c THEN foreignOps ELSE foreignOps \cup {op}

\* out.Close() on a bare A stream (B was not reached): net.Conn.Close
CloseBare(c, r) ==
  /\ pc[c][r] = "oc_chk"
  /\ outTee[c] = 0
  /\ aState' = [aState EXCEPT ![c] = "closed"]
  /\ Leave(c, r)
  /\ UNCHANGED <<outTee, pumpVars, cliVars, aOut, aSent, aEOF, aRecv, bVars,
                 teeVars, bufVars, bReaders, garbage, drVars, histVars>>

\* Tee.Close, lines 59-61: the unsynchronised read of t.closed
CloseCheck(c, r) ==
  /\ pc[c][r] = "oc_chk"
  /\ outTee[c] # 0
  /\ foreignOps' = Foreign(c, outTee[c], "Close")
  /\ IF tClosed[outTee[c]]
     THEN Leave(c, r)
     ELSE /\ pc' = [pc EXCEPT ![c][r] = "oc_set"]
          /\ wg' = wg
  /\ UNCHANGED <<outTee, pumpVars, cliVars, aVars, bVars, teeVars, bufVars,
                 bReaders, garbage, drVars, gets, bDialed, drains, puts, retDiff>>

\* Tee.Close, lines 62-92: t.closed = true, and `go func() {...}()`: the drain
\* goroutine, which creates c and starts the inner goroutine (lines 73-77)
\* and then waits in its select (line 78)
CloseSet(c, r) ==
  /\ pc[c][r] = "oc_set"
  /\ tClosed' = [tClosed EXCEPT ![outTee[c]] = TRUE]
  /\ dPc' = [dPc EXCEPT ![c][r] = "wait"]
  /\ dTee' = [dTee EXCEPT ![c][r] = outTee[c]]
  /\ dB' = [dB EXCEPT ![c][r] = tB[outTee[c]]]
  /\ dCopy' = [dCopy EXCEPT ![c][r] = "spawned"]
  /\ drains' = [drains EXCEPT ![outTee[c]] = @ + 1]
  /\ pc' = [pc EXCEPT ![c][r] = "oc_A"]
  /\ UNCHANGED <<wg, outTee, pumpVars, cliVars, aVars, bVars, tA, tB, pool, nTees,
                 bufVars, bReaders, garbage, dCopyB, foreignOps, gets, bDialed,
                 puts, retDiff>>

\* a Tee operation returned got where the operation on A returned want
Differ(op, got, want) == IF got = want THEN retDiff ELSE retDiff \cup {op}

\* what net.Conn.Close returns
SockClose(st) == IF st = "closed" THEN "err" ELSE "nil"

\* line 94: what Tee.Close returns, given what t.a.Close() returned
TeeCloseReturn(aErr) == aErr

\* a Close that returns only once its drain goroutine has finished
CloseAAfterDrain(c, r) ==
  /\ pc[c][r] = "oc_A"
  /\ dPc[c][r] = "done"
  /\ aState' = [aState EXCEPT ![tA[outTee[c]]] = "closed"]
  /\ retDiff' = Differ("Close", TeeCloseReturn(SockClose(aState[tA[outTee[c]]])),
                       SockClose(aState[tA[outTee[c]]]))
  /\ Leave(c, r)
  /\ UNCHANGED <<outTee, pumpVars, cliVars, aOut, aSent, aEOF, aRecv, bVars,
                 teeVars, bufVars, bReaders, garbage, drVars, foreignOps, gets,
                 bDialed, drains, puts>>

\* Tee.Close, line 94: return t.a.Close(); t.a is read now
CloseA(c, r) ==
  /\ pc[c][r] = "oc_A"
  /\ aState' = [aState EXCEPT ![tA[outTee[c]]] = "closed"]
  /\ retDiff' = Differ("Close", TeeCloseReturn(SockClose(aState[tA[outTee[c]]])),
                       SockClose(aState[tA[outTee[c]]]))
  /\ Leave(c, r)
  /\ UNCHANGED <<outTee, pumpVars, cliVars, aOut, aSent, aEOF, aRecv, bVars,
                 teeVars, bufVars, bReaders, garbage, drVars, foreignOps, gets,
                 bDialed, drains, puts>>

\* Tee.Close, lines 57-95, run without another goroutine in between
TeeCloseWhole(c, r) ==
  /\ pc[c][r] = "oc_chk"
  /\ outTee[c] # 0
  /\ foreignOps' = Foreign(c, outTee[c], "Close")
  /\ Leave(c, r)
  /\ IF tClosed[outTee[c]]
     THEN UNCHANGED <<tClosed, dPc, dTee, dB, dCopy, drains, aState, retDiff>>
     ELSE /\ tClosed' = [tClosed EXCEPT ![outTee[c]] = TRUE]
          /\ dPc' = [dPc EXCEPT ![c][r] = "wait"]
          /\ dTee' = [dTee EXCEPT ![c][r] = outTee[c]]
          /\ dB' = [dB EXCEPT ![c][r] = tB[outTee[c]]]
          /\ dCopy' = [dCopy EXCEPT ![c][r] = "spawned"]
          /\ drains' = [drains EXCEPT ![outTee[c]] = @ + 1]
          /\ aState' = [aState EXCEPT ![tA[outTee[c]]] = "closed"]
          /\ retDiff' = Differ("Close",
                                TeeCloseReturn(SockClose(aState[tA[outTee[c]]])),
                                SockClose(aState[tA[outTee[c]]]))
  /\ UNCHANGED <<outTee, pumpVars, cliVars, aOut, aSent, aEOF, aRecv, bVars, tA,
                 tB, pool, nTees, bufVars, bReaders, garbage, dCopyB, gets,
                 bDialed, puts>>

\* ---------------------------------------------------- the drain goroutine
\* line 75: the inner goroutine starts io.Copy(ioutil.Discard, t.b); t.b is
\* read when the goroutine runs
DrainCopyStart(c, r) ==
  /\ dCopy[c][r] = "spawned"
  /\ dCopy' = [dCopy EXCEPT ![c][r] = "run"]
  /\ dCopyB' = [dCopyB EXCEPT ![c][r] = tB[dTee[c][r]]]
  /\ UNCHANGED <<pc, wg, outTee, pumpVars, cliVars, aVars, bVars, teeVars,
                 bufVars, bReaders, garbage, dPc, dTee, dB, histVars>>

\* line 75: one Read of io.Copy, into ioutil.Discard's own buffer
DrainCopyRead(c, r) ==
  /\ dCopy[c][r] = "run"
  /\ bState[dCopyB[c][r]] = "open"
  /\ bOut[dCopyB[c][r]] # <<>>
  /\ bOut' = [bOut EXCEPT ![dCopyB[c][r]] = <<>>]
  /\ UNCHANGED <<pc, wg, outTee, pumpVars, cliVars, aVars, bState, bSent, bEOF,
                 bStall, bRecv, bCloses, teeVars, bufVars, bReaders, garbage,
                 drVars, histVars>>

\* lines 75-76: Read returns EOF or an error, io.Copy returns, c <- struct{}{}
\* (c has room for one value: the send never blocks)
DrainCopyEnd(c, r) ==
  /\ dCopy[c][r] = "run"
  /\ \/ bState[dCopyB[c][r]] = "closed"
     \/ bEOF[dCopyB[c][r]] /\ bOut[dCopyB[c][r]] = <<>>
  /\ dCopy' = [dCopy EXCEPT ![c][r] = "done"]
  /\ UNCHANGED <<pc, wg, outTee, pumpVars, cliVars, aVars, bVars, teeVars,
                 bufVars, bReaders, garbage, dPc, dTee, dB, dCopyB, histVars>>

\* lines 78-81: case <-c
DrainSelectDone(c, r) ==
  /\ dPc[c][r] = "wait"
  /\ dCopy[c][r] = "done"
  /\ dPc' = [dPc EXCEPT ![c][r] = "close"]
  /\ UNCHANGED <<pc, wg, outTee, pumpVars, cliVars, aVars, bVars, teeVars,
                 bufVars, bReaders, garbage, dTee, dB, dCopy, dCopyB, histVars>>

\* lines 82-84: case <-time.After(*linger)
DrainLinger(c, r) ==
  /\ dPc[c][r] = "wait"
  /\ dCopy[c][r] # "done"
  /\ dPc' = [dPc EXCEPT ![c][r] = "close"]
  /\ UNCHANGED <<pc, wg, outTee, pumpVars, cliVars, aVars, bVars, teeVars,
                 bufVars, bReaders, garbage, dTee, dB, dCopy, dCopyB, histVars>>

\* line 89: t.b.Close(); t.b is read now
DrainCloseB(c, r) ==
  /\ dPc[c][r] = "close"
  /\ bState' = [bState EXCEPT ![tB[dTee[c][r]]] = "closed"]
  /\ bCloses' = [bCloses EXCEPT ![tB[dTee[c][r]]] = @ + 1]
  /\ dPc' = [dPc EXCEPT ![c][r] = "put"]
  /\ UNCHANGED <<pc, wg, outTee, pumpVars, cliVars, aVars, bOut, bSent, bEOF,
                 bStall, bRecv, teeVars, bufVars, bReaders, garbage, dTee, dB, dCopy,
                 dCopyB, histVars>>

\* line 91: teePool.Put(t)
DrainPut(c, r) ==
  /\ dPc[c][r] = "put"
  /\ pool' = [pool EXCEPT ![dTee[c][r]] = @ + 1]
  /\ puts' = [puts EXCEPT ![dTee[c][r]] = @ + 1]
  /\ dPc' = [dPc EXCEPT ![c][r] = "done"]
  /\ UNCHANGED <<pc, wg, outTee, pumpVars, cliVars, aVars, bVars, tA, tB, tClosed,
                 nTees, bufVars, bReaders, garbage, dTee, dB, dCopy, dCopyB,
                 foreignOps, gets, bDialed, drains, retDiff>>

\* the drain goroutine, lines 69-92, run without another goroutine in
\* between, when the linger timer ends its select: the inner goroutine has
\* started its io.Copy, t.b.Close() makes that return, teePool.Put(t)
DrainWhole(c, r) ==
  /\ dPc[c][r] = "wait"
  /\ dCopy[c][r] = "spawned"
  /\ bState' = [bState EXCEPT ![tB[dTee[c][r]]] = "closed"]
  /\ bCloses' = [bCloses EXCEPT ![tB[dTee[c][r]]] = @ + 1]
  /\ pool' = [pool EXCEPT ![dTee[c][r]] = @ + 1]
  /\ puts' = [puts EXCEPT ![dTee[c][r]] = @ + 1]
  /\ dPc' = [dPc EXCEPT ![c][r] = "done"]
  /\ dCopy' = [dCopy EXCEPT ![c][r] = "done"]
  /\ dCopyB' = [dCopyB EXCEPT ![c][r] = tB[dTee[c][r]]]
  /\ UNCHANGED <<pc, wg, outTee, pumpVars, cliVars, aVars, bOut, bSent, bEOF,
                 bStall, bRecv, teeVars_noPool, bufVars, bReaders, garbage, dTee, dB,
                 foreignOps, gets, bDialed, drains, retDiff>>

\* ------------------------------------------------------------ bufio.Writer
\* net.Conn.Write on B: an error once B is closed on either side
BFails(k) == bState[k] = "closed" \/ bEOF[k]

\* bufio.Writer.Write(p) needs the underlying writer when p does not fit
NeedsB(k, p) == ~bufErr[k] /\ Len(p) > BufSize - Len(buf[k])

\* bufio.Writer.Write(p) on a writer holding bf, when the underlying Write
\* succeeds (ok) or fails: the buffered bytes afterwards, the sticky error
\* and the bytes handed to the underlying writer.  A p that does not fit is
\* written directly when the buffer is empty; otherwise the buffer is filled
\* and flushed and the rest is treated the same way.
BufWrite(bf, err, p, ok) ==
  LET avail == BufSize - Len(bf)
      filled == bf \o SubSeq(p, 1, avail)
      rest == SubSeq(p, avail + 1, Len(p))
  IN  IF err THEN [buf |-> bf, err |-> TRUE, sent |-> <<>>]
      ELSE IF Len(p) <= avail THEN [buf |-> bf \o p, err |-> FALSE, sent |-> <<>>]
      ELSE IF Len(bf) = 0
           THEN IF ok THEN [buf |-> <<>>, err |-> FALSE, sent |-> p]
                ELSE [buf |-> <<>>, err |-> TRUE, sent |-> <<>>]
      ELSE IF ~ok THEN [buf |-> filled, err |-> TRUE, sent |-> <<>>]
      ELSE IF Len(rest) > BufSize
           THEN [buf |-> <<>>, err |-> FALSE, sent |-> filled \o rest]
           ELSE [buf |-> rest, err |-> FALSE, sent |-> filled]

ApplyBufWrite(k, p) ==
  LET w == BufWrite(buf[k], bufErr[k], p, ~BFails(k))
  IN  /\ buf' = [buf EXCEPT ![k] = w.buf]
      /\ bufErr' = [bufErr EXCEPT ![k] = w.err]
      /\ bRecv' = [bRecv EXCEPT ![k] = @ \o w.sent]

\* the goroutine of line 46 runs bufio.Writer.Flush: nothing to do on a
\* sticky error or an empty buffer; else wr.Write(buf[0:n]), which blocks
\* while B does not accept
FlushStart(k) ==
  /\ flPending[k] > 0
  /\ bufErr[k] \/ buf[k] = <<>> \/ BFails(k) \/ ~bStall[k]
  /\ flPending' = [flPending EXCEPT ![k] = @ - 1]
  /\ IF bufErr[k] \/ buf[k] = <<>>
     THEN UNCHANGED <<bufErr, bRecv, flInflight>>
     ELSE IF BFails(k)
     THEN /\ bufErr' = [bufErr EXCEPT ![k] = TRUE]
          /\ UNCHANGED <<bRecv, flInflight>>
     ELSE /\ bRecv' = [bRecv EXCEPT ![k] = @ \o buf[k]]
          /\ flInflight' = [flInflight EXCEPT ![k] = @ + 1]
          /\ bufErr' = bufErr
  /\ UNCHANGED <<pc, wg, outTee, pumpVars, cliVars, aVars, bState, bOut, bSent,
                 bEOF, bStall, bCloses, teeVars, buf, bReaders, garbage, drVars,
                 histVars>>

\* bufio.Writer.Flush after a successful wr.Write: b.n = 0
FlushEnd(k) ==
  /\ flInflight[k] > 0
  /\ flInflight' = [flInflight EXCEPT ![k] = @ - 1]
  /\ buf' = [buf EXCEPT ![k] = <<>>]
  /\ UNCHANGED <<pc, wg, outTee, pumpVars, cliVars, aVars, bVars, teeVars, bufErr,
                 flPending, bReaders, garbage, drVars, histVars>>

\* the goroutine of line 52, t.b.Read(garbage[0:len(p)]), returns: with the
\* bytes B answered, now in garbage, or with EOF or an error
BReadReturn(k) ==
  /\ bReaders[k] > 0
  /\ bState[k] = "closed" \/ bOut[k] # <<>> \/ bEOF[k]
  /\ bReaders' = [bReaders EXCEPT ![k] = @ - 1]
  /\ IF bState[k] = "open" /\ bOut[k] # <<>>
     THEN /\ garbage' = bOut[k]
          /\ bOut' = [bOut EXCEPT ![k] = <<>>]
     ELSE UNCHANGED <<garbage, bOut>>
  /\ UNCHANGED <<pc, wg, outTee, pumpVars, cliVars, aVars, bState, bSent, bEOF,
                 bStall, bRecv, bCloses, teeVars, bufVars, drVars, histVars>>

\* --------------------------------------------- pump CS: io.Copy(out, conn)
\* line 124, io.Copy's src.Read: conn.Read returns what the client wrote, or
\* EOF, or an error once conn is closed
CSRead(c) ==
  /\ pc[c]["CS"] = "rd"
  /\ connClosed[c] \/ connIn[c] # <<>> \/ cliEOF[c]
  /\ IF ~connClosed[c] /\ connIn[c] # <<>>
     THEN /\ chunk' = [chunk EXCEPT ![c]["CS"] = connIn[c]]
          /\ connIn' = [connIn EXCEPT ![c] = <<>>]
          /\ pc' = [pc EXCEPT ![c]["CS"] = IF outTee[c] = 0 THEN "wa" ELSE "wbuf"]
     ELSE /\ pc' = [pc EXCEPT ![c]["CS"] = "cconn"]
          /\ UNCHANGED <<chunk, connIn>>
  /\ UNCHANGED <<wg, outTee, rdA, wrB, cliSent, cliEOF, connClosed, cliRecv, aVars,
                 bVars, teeVars, bufVars, bReaders, garbage, drVars, histVars>>

\* Tee.Write, line 45: t.buf.Write(p); t.buf is read now.  The call returns
\* at once unless p does not fit and B does not accept: then it is blocked
\* in B's Write.
CSBufWrite(c) ==
  /\ pc[c]["CS"] = "wbuf"
  /\ foreignOps' = Foreign(c, outTee[c], "Write")
  /\ IF NeedsB(tB[outTee[c]], chunk[c]["CS"]) /\ bStall[tB[outTee[c]]]
        /\ ~BFails(tB[outTee[c]])
     THEN /\ wrB' = [wrB EXCEPT ![c] = tB[outTee[c]]]
          /\ pc' = [pc EXCEPT ![c]["CS"] = "wblk"]
          /\ UNCHANGED <<buf, bufErr, bRecv>>
     ELSE /\ ApplyBufWrite(tB[outTee[c]], chunk[c]["CS"])
          /\ pc' = [pc EXCEPT ![c]["CS"] = "wa"]
          /\ wrB' = wrB
  /\ UNCHANGED <<wg, outTee, chunk, rdA, cliVars, aVars, bState, bOut, bSent, bEOF,
                 bStall, bCloses, teeVars, flPending, flInflight, bReaders,
                 garbage, drVars, gets, bDialed, drains, puts, retDiff>>

\* Tee.Write, line 45, blocked in B's Write: it returns when B is closed
CSBufUnblock(c) ==
  /\ pc[c]["CS"] = "wblk"
  /\ BFails(wrB[c])
  /\ ApplyBufWrite(wrB[c], chunk[c]["CS"])
  /\ wrB' = [wrB EXCEPT ![c] = 0]
  /\ pc' = [pc EXCEPT ![c]["CS"] = "wa"]
  /\ UNCHANGED <<wg, outTee, chunk, rdA, cliVars, aVars, bState, bOut, bSent, bEOF,
                 bStall, bCloses, teeVars, flPending, flInflight, bReaders,
                 garbage, drVars, histVars>>

\* net.Conn.Write(p) on A: an error once a.Close() was called
SockWrite(st, p) == IF st = "open" THEN Pair(Len(p), "nil") ELSE Pair(0, "err")

\* a Tee.Write that reports the sticky error of the writer around B
TeeWriteReturnB(aPair, k) == IF bufErr[k] THEN Pair(0, "err") ELSE aPair

\* line 47: what Tee.Write returns, given what t.a.Write(p) returned; k is
\* the writer of line 45, whose result is dropped
TeeWriteReturn(aPair, k) == aPair

\* the A stream `out` writes to and reads from: t.a, or out itself
OutA(c) == IF outTee[c] = 0 THEN c ELSE tA[outTee[c]]

\* Tee.Write, lines 46-47: go t.buf.Flush(); return t.a.Write(p).  On a bare
\* A stream, out.Write(p).  io.Copy leaves its loop on a write error.
CSWriteA(c) ==
  /\ pc[c]["CS"] = "wa"
  /\ LET a == OutA(c)
         res == SockWrite(aState[a], chunk[c]["CS"])
         got == IF outTee[c] = 0 THEN res ELSE TeeWriteReturn(res, tB[outTee[c]])
     IN  /\ aRecv' = [aRecv EXCEPT ![a] = IF res.err = "nil" THEN @ \o chunk[c]["CS"] ELSE @]
         /\ retDiff' = Differ("Write", got, res)
         /\ pc' = [pc EXCEPT ![c]["CS"] = IF got.err = "nil" THEN "rd" ELSE "cconn"]
  /\ IF outTee[c] = 0
     THEN UNCHANGED <<flPending, foreignOps>>
     ELSE /\ flPending' = [flPending EXCEPT ![tB[outTee[c]]] = @ + 1]
          /\ foreignOps' = Foreign(c, outTee[c], "Write")
  /\ chunk' = [chunk EXCEPT ![c]["CS"] = <<>>]
  /\ UNCHANGED <<wg, outTee, rdA, wrB, cliVars, aState, aOut, aSent, aEOF, bVars,
                 teeVars, buf, bufErr, flInflight, bReaders, garbage, drVars,
                 gets, bDialed, drains, puts>>

\* --------------------------------------------- pump SC: io.Copy(conn, out)
\* Tee.Read, lines 52-53: go t.b.Read(garbage[0:len(p)]) and the call of
\* t.a.Read(p); t.b and t.a are read now.  On a bare A stream, out.Read(p).
SCRead(c) ==
  /\ pc[c]["SC"] = "rd"
  /\ rdA' = [rdA EXCEPT ![c] = OutA(c)]
  /\ IF outTee[c] = 0
     THEN UNCHANGED <<bReaders, foreignOps>>
     ELSE /\ bReaders' = [bReaders EXCEPT ![tB[outTee[c]]] = @ + 1]
          /\ foreignOps' = Foreign(c, outTee[c], "Read")
  /\ pc' = [pc EXCEPT ![c]["SC"] = "rdwait"]
  /\ UNCHANGED <<wg, outTee, chunk, wrB, cliVars, aVars, bVars, teeVars, bufVars,
                 garbage, drVars, gets, bDialed, drains, puts, retDiff>>

\* Tee.Read(p) with len(p) = n, lines 51-53.  The operands of the go
\* statement are evaluated by the caller: garbage[0:n] is a run-time panic
\* (slice bounds out of range) when n exceeds len(garbage), and the caller
\* does not get to t.a.Read(p).
TeeRead(c, n) ==
  /\ pc[c]["SC"] = "rd"
  /\ outTee[c] # 0
  /\ IF n <= GarbageLen
     THEN SCRead(c)
     ELSE /\ pc' = [pc EXCEPT ![c]["SC"] = "panic"]
          /\ UNCHANGED <<wg, outTee, pumpVars, cliVars, aVars, bVars, teeVars,
                         bufVars, bReaders, garbage, drVars, histVars>>

\* net.Conn.Read on A: the bytes A answered, or EOF, or an error once
\* a.Close() was called
SockRead(st, avail, eof) ==
  IF st # "open" THEN Pair(0, "err")
  ELSE IF avail # <<>> THEN Pair(Len(avail), "nil")
  ELSE Pair(0, "EOF")

\* line 53: what Tee.Read returns, given what t.a.Read(p) returned
TeeReadReturn(aPair) == aPair

\* Tee.Read, line 53: t.a.Read(p) returns.  io.Copy leaves its loop on EOF or
\* on an error.
SCReadReturn(c) ==
  /\ pc[c]["SC"] = "rdwait"
  /\ aState[rdA[c]] = "closed" \/ aOut[rdA[c]] # <<>> \/ aEOF[rdA[c]]
  /\ LET res == SockRead(aState[rdA[c]], aOut[rdA[c]], aEOF[rdA[c]])
         got == IF outTee[c] = 0 THEN res ELSE TeeReadReturn(res)
     IN  /\ retDiff' = Differ("Read", got, res)
         /\ IF res.n > 0
            THEN /\ chunk' = [chunk EXCEPT ![c]["SC"] = aOut[rdA[c]]]
                 /\ aOut' = [aOut EXCEPT ![rdA[c]] = <<>>]
            ELSE UNCHANGED <<chunk, aOut>>
         /\ pc' = [pc EXCEPT ![c]["SC"] = IF got.err = "nil" THEN "wr" ELSE "oc_chk"]
  /\ rdA' = [rdA EXCEPT ![c] = 0]
  /\ UNCHANGED <<wg, outTee, wrB, cliVars, aState, aSent, aEOF, aRecv, bVars,
                 teeVars, bufVars, bReaders, garbage, drVars, foreignOps, gets,
                 bDialed, drains, puts>>

\* line 134, io.Copy's dst.Write: conn.Write(p) delivers to the client, or
\* fails once conn is closed
SCWrite(c) ==
  /\ pc[c]["SC"] = "wr"
  /\ IF connClosed[c]
     THEN /\ pc' = [pc EXCEPT ![c]["SC"] = "oc_chk"]
          /\ cliRecv' = cliRecv
     ELSE /\ pc' = [pc EXCEPT ![c]["SC"] = "rd"]
          /\ cliRecv' = [cliRecv EXCEPT ![c] = @ \o chunk[c]["SC"]]
  /\ chunk' = [chunk EXCEPT ![c]["SC"] = <<>>]
  /\ UNCHANGED <<wg, outTee, rdA, wrB, connIn, cliSent, cliEOF, connClosed, aVars,
                 bVars, teeVars, bufVars, bReaders, garbage, drVars, histVars>>

\* ------------------------------------------------------------ environment
\* the client writes its next byte
ClientSend(c) ==
  /\ pc[c]["H"] # "idle"
  /\ ~connClosed[c] /\ ~cliEOF[c]
  /\ Total(cliSent) < MaxBytes
  /\ cliSent' = [cliSent EXCEPT ![c] = @ + 1]
  /\ connIn' = [connIn EXCEPT ![c] = Append(@, CliByte(c, cliSent[c] + 1))]
  /\ UNCHANGED <<pc, wg, outTee, pumpVars, cliEOF, connClosed, cliRecv, aVars,
                 bVars, teeVars, bufVars, bReaders, garbage, drVars, histVars>>

\* the client closes its end
ClientClose(c) ==
  /\ pc[c]["H"] # "idle"
  /\ ~connClosed[c] /\ ~cliEOF[c]
  /\ cliEOF' = [cliEOF EXCEPT ![c] = TRUE]
  /\ UNCHANGED <<pc, wg, outTee, pumpVars, connIn, cliSent, connClosed, cliRecv,
                 aVars, bVars, teeVars, bufVars, bReaders, garbage, drVars,
                 histVars>>

\* backend A answers a byte
ASend(c) ==
  /\ aState[c] = "open" /\ ~aEOF[c]
  /\ Total(aSent) < MaxA
  /\ aSent' = [aSent EXCEPT ![c] = @ + 1]
  /\ aOut' = [aOut EXCEPT ![c] = Append(@, AByte(c, aSent[c] + 1))]
  /\ UNCHANGED <<pc, wg, outTee, pumpVars, cliVars, aState, aEOF, aRecv, bVars,
                 teeVars, bufVars, bReaders, garbage, drVars, histVars>>

\* backend A closes the connection
AClose(c) ==
  /\ aState[c] = "open" /\ ~aEOF[c]
  /\ aEOF' = [aEOF EXCEPT ![c] = TRUE]
  /\ UNCHANGED <<pc, wg, outTee, pumpVars, cliVars, aState, aOut, aSent, aRecv,
                 bVars, teeVars, bufVars, bReaders, garbage, drVars, histVars>>

\* backend B answers a byte
BSend(c) ==
  /\ bState[c] = "open" /\ ~bEOF[c]
  /\ Total(bSent) < MaxB
  /\ bSent' = [bSent EXCEPT ![c] = @ + 1]
  /\ bOut' = [bOut EXCEPT ![c] = Append(@, BByte(c, bSent[c] + 1))]
  /\ UNCHANGED <<pc, wg, outTee, pumpVars, cliVars, aVars, bState, bEOF, bStall,
                 bRecv, bCloses, teeVars, bufVars, bReaders, garbage, drVars,
                 histVars>>

\* backend B stops accepting bytes: from now on a Write to it blocks
BStalls(c) ==
  /\ bState[c] = "open" /\ ~bEOF[c] /\ ~bStall[c]
  /\ bStall' = [bStall EXCEPT ![c] = TRUE]
  /\ UNCHANGED <<pc, wg, outTee, pumpVars, cliVars, aVars, bState, bOut, bSent,
                 bEOF, bRecv, bCloses, teeVars, bufVars, bReaders, garbage,
                 drVars, histVars>>

\* backend B closes the connection, or fails
BClose(c) ==
  /\ bState[c] = "open" /\ ~bEOF[c]
  /\ bEOF' = [bEOF EXCEPT ![c] = TRUE]
  /\ UNCHANGED <<pc, wg, outTee, pumpVars, cliVars, aVars, bState, bOut, bSent,
                 bStall, bRecv, bCloses, teeVars, bufVars, bReaders, garbage,
                 drVars, histVars>>

\* ------------------------------------------------------------ the program
\* the goroutines of one connection, up to the calls of out.Close()
Handle(c) ==
  \/ SelectTimeout(c)
  \/ CSRead(c) \/ SCRead(c) \/ SCReadReturn(c)
  \/ \E r \in Closers : CloseConn(c, r)

\* a backend that cannot be reached
DialFails(c) ==
  \/ DialAFail(c) \/ Abort(c) \/ DialBFail(c)
  \/ \E r \in Closers : CloseBare(c, r)

\* Tee.Close and its drain goroutine, line by line
Closing(c) ==
  \E r \in Closers :
     \/ CloseCheck(c, r) \/ CloseSet(c, r) \/ CloseA(c, r)
     \/ DrainCopyStart(c, r) \/ DrainCopyEnd(c, r)
     \/ DrainSelectDone(c, r) \/ DrainLinger(c, r) \/ DrainCloseB(c, r)
     \/ DrainPut(c, r)

\* Tee.Close and its drain goroutine, each as one step
ClosingWhole(c) ==
  \E r \in Closers : TeeCloseWhole(c, r) \/ DrainWhole(c, r)

\* the pump CS writing what it read to the Tee or to the bare A stream
Writes(c) == CSBufWrite(c) \/ CSWriteA(c)

\* the goroutines of line 46
Flushes(c) == FlushStart(c) \/ FlushEnd(c)

\* the peers closing their end
PeersClose(c) == ClientClose(c) \/ AClose(c) \/ BClose(c)

\* One connection, with Tee.Close and the drain goroutine line by line; the
\* backends may be unreachable and every peer may close at any moment.  No
\* payload is sent.
NextClose ==
  \E c \in {1} :
     \/ DialAOk(c) \/ DialBOk(c) \/ SelectDone(c) \/ BReadReturn(c)
     \/ Handle(c) \/ DialFails(c) \/ Closing(c) \/ PeersClose(c)

SpecClose == Init /\ [][NextClose]_vars

\* One connection and the bytes its client writes, which go to A and to B;
\* B may stop accepting and every peer may close.  Tee.Close and the drain
\* goroutine are single steps.
NextData ==
  \E c \in {1} :
     \/ DialAOk(c) \/ DialBOk(c) \/ SelectDone(c) \/ BReadReturn(c)
     \/ Handle(c) \/ DialFails(c) \/ ClosingWhole(c) \/ PeersClose(c)
     \/ ClientSend(c) \/ Writes(c) \/ CSBufUnblock(c) \/ Flushes(c) \/ BStalls(c)

SpecData == Init /\ [][NextData]_vars

\* Connections that follow each other on one pooled instance: a connection
\* arrives when the pool holds an instance, which teePool.Get returns, and
\* once the connection before its predecessor has ended.  No peer closes, so
\* every connection ends by its timeout.
Ended(c) ==
  /\ pc[c]["H"] = "ret" /\ pc[c]["CS"] = "done" /\ pc[c]["SC"] = "done"
  /\ \A r \in Closers : dPc[c][r] \in {"none", "done"}

Arrives(c) ==
  /\ IF c = 1 THEN TRUE ELSE PoolHolds
  /\ IF c <= 2 THEN TRUE ELSE Ended(c - 2)
  /\ DialAOk(c)

Pooled(c) == Arrives(c) \/ DialBOkPooled(c) \/ Handle(c) \/ ClosingWhole(c)

\* the A backends answer
NextShare ==
  \E c \in Conns : Pooled(c) \/ ASend(c) \/ SCWrite(c)

SpecShare == Init /\ [][NextShare]_vars

\* the clients write
NextUp ==
  \E c \in 1..UpConns : Pooled(c) \/ ClientSend(c) \/ Writes(c)

SpecUp == Init /\ [][NextUp]_vars

\* Connections that come after the first one has gone: the first connection
\* ends by its timeout, its handler and its pump CS close the stream, and
\* the later connections arrive once the pool holds an instance.  Tee.Close
\* and the drain goroutine run line by line; every drain ends by its linger
\* timer.
Gone(c) ==
  /\ pc[c]["H"] = "ret" /\ pc[c]["CS"] = "done"
  /\ \A r \in Closers : dPc[c][r] \in {"none", "done"}

Follows(c) ==
  /\ IF c = 1 THEN TRUE ELSE PoolHolds /\ Gone(1)
  /\ DialAOk(c)

ClosingLinger(c) ==
  \E r \in Closers :
     \/ CloseCheck(c, r) \/ CloseSet(c, r) \/ CloseA(c, r)
     \/ DrainLinger(c, r) \/ DrainCloseB(c, r) \/ DrainPut(c, r)

NextReuse ==
  \E c \in Conns :
     \/ Follows(c) \/ DialBOkPooled(c) \/ SelectTimeout(c) \/ CSRead(c)
     \/ (\E r \in Closers : CloseConn(c, r))
     \/ ClosingLinger(c)

SpecReuse == Init /\ [][NextReuse]_vars

\* Two connections that end because their client closes, with no timeout:
\* the pumps, Tee.Close and the drain goroutine run line by line, and the
\* second connection arrives once the pool holds an instance.
Later(c) ==
  /\ IF c = 1 THEN TRUE ELSE PoolHolds
  /\ DialAOk(c)

NextLate ==
  \E c \in 1..UpConns :
     \/ Later(c) \/ DialBOkPooled(c) \/ ClientClose(c)
     \/ CSRead(c) \/ SCRead(c) \/ SCReadReturn(c) \/ SelectDone(c)
     \/ (\E r \in Closers : CloseConn(c, r))
     \/ Closing(c)

SpecLate == Init /\ [][NextLate]_vars

\* Connections side by side, each on its own instance, whose upstream
\* stream is read with buffers of any length; A and B answer.
NextRead ==
  \E c \in 1..UpConns :
     \/ DialAOk(c) \/ DialBOk(c)
     \/ (\E n \in ReadLens : TeeRead(c, n))
     \/ SCReadReturn(c) \/ SCWrite(c) \/ BReadReturn(c)
     \/ ASend(c) \/ BSend(c) \/ BClose(c)

SpecRead == Init /\ [][NextRead]_vars

\* ---------------------------------------------------------------- claims
\* C1: the bytes delivered to the A stream of a connection are at all times
\* a prefix of the bytes that connection's own client wrote
C1_AGetsOwnClientBytes ==
  \A c \in Conns : IsPrefix(aRecv[c], CliBytes(c, cliSent[c]))

\* C2: Tee.Read returns the pair of the read on A, and the bytes delivered
\* to a client are at all times a prefix of the bytes its own A produced
C2_ClientGetsOwnABytes ==
  /\ "Read" \notin retDiff
  /\ \A c \in Conns : IsPrefix(cliRecv[c], ABytes(c, aSent[c]))

\* C3: a Tee.Write call is never waiting on B: no pump is ever blocked in
\* B's Write inside Tee.Write
C3_WriteNeverWaitsOnB ==
  \A c \in Conns : pc[c]["CS"] # "wblk"

\* C4: a failure or end-of-stream on B is not observed by the caller:
\* Tee.Write and Tee.Read return A's pair, and while the client and A are
\* alive and the timeout has not fired, the connection stays up: no task is
\* on its way to Close, A and the client connection are open and the flag
\* t.closed is false, whatever B did
C4_BFailureNotObserved ==
  /\ "Write" \notin retDiff
  /\ "Read" \notin retDiff
  /\ \A c \in Conns :
        (outTee[c] # 0 /\ pc[c]["H"] = "select" /\ ~cliEOF[c] /\ ~aEOF[c])
        => /\ ~tClosed[outTee[c]]
           /\ aState[c] = "open"
           /\ ~connClosed[c]
           /\ pc[c]["CS"] \in {"rd", "wbuf", "wblk", "wa"}
           /\ pc[c]["SC"] \in {"rd", "rdwait", "wr"}

\* C4 happens: B failed in the middle of the connection, the writer around
\* B holds the error, and both bytes of the client reached A on a
\* connection that is still up
C4_Witness ==
  /\ outTee[1] # 0 /\ bEOF[1] /\ bufErr[1]
  /\ Len(aRecv[1]) = 2
  /\ pc[1]["H"] = "select" /\ pc[1]["CS"] = "rd"
  /\ aState[1] = "open" /\ ~tClosed[outTee[1]]

\* C5: for one acquisition of an instance at most one drain goroutine is
\* started, the instance is put into the pool at most once, and B is closed
\* at most once
C5_CloseIdempotent ==
  /\ \A t \in Tees : drains[t] <= 1 /\ puts[t] <= 1
  /\ \A k \in Conns : bCloses[k] <= 1

\* C6: no connection performs a Read, Write or Close on an instance that
\* NewTee has handed to a later connection
C6_InstanceNotShared ==
  foreignOps = {}

\* C7: when HandleTCP has returned, the client connection and the upstream
\* stream have been closed
C7_ReturnedMeansClosed ==
  \A c \in Conns :
     (pc[c]["H"] = "ret" /\ bDialed[c]) => connClosed[c] /\ aState[c] = "closed"

\* C8: when A was reached and B was not, no Tee is taken from the pool, the
\* stream of the connection is the bare A stream, and nothing of the
\* connection touches B: no write, no read, no flush, no drain, no Close
C8_BareAWhenBFails ==
  \A c \in Conns :
     (bDialed[c] /\ bState[c] = "none")
     => /\ aState[c] # "none"
        /\ outTee[c] = 0 /\ gets[c] = 0
        /\ bRecv[c] = <<>> /\ buf[c] = <<>> /\ ~bufErr[c]
        /\ flPending[c] = 0 /\ flInflight[c] = 0 /\ bReaders[c] = 0
        /\ bCloses[c] = 0
        /\ \A r \in Closers : dPc[c][r] = "none"
        /\ pc[c]["H"] \in {"select", "cconn", "oc_chk", "ret"}

\* C8 happens: B was not reached, and the connection relayed a byte of the
\* client to A and has ended
C8_Witness ==
  /\ bDialed[1] /\ bState[1] = "none"
  /\ Len(aRecv[1]) >= 1
  /\ pc[1]["H"] = "ret" /\ aState[1] = "closed"

\* C9: when A was not reached, B is not dialled, no Tee is acquired,
\* HandleTCP does not run (no pump exists), no byte is read from or written
\* to the client or a backend, and tee returns with the client connection
\* closed
C9_AbortWhenAFails ==
  \A c \in Conns :
     (pc[c]["H"] # "idle" /\ aState[c] = "none")
     => /\ pc[c]["H"] \in {"abort", "ret"}
        /\ pc[c]["H"] = "ret" => connClosed[c]
        /\ ~bDialed[c] /\ bState[c] = "none"
        /\ gets[c] = 0 /\ outTee[c] = 0
        /\ pc[c]["CS"] = "idle" /\ pc[c]["SC"] = "idle" /\ pc[c]["W"] = "idle"
        /\ Len(connIn[c]) = cliSent[c]
        /\ cliRecv[c] = <<>> /\ aRecv[c] = <<>> /\ bRecv[c] = <<>>

\* C9 happens: A was not reached, the client wrote a byte, and tee returned
C9_Witness ==
  /\ aState[1] = "none" /\ pc[1]["H"] = "ret" /\ connClosed[1]
  /\ cliSent[1] >= 1

\* C10: the Close that found t.closed false returns what t.a.Close()
\* returned, and its remaining steps never wait: each is enabled whatever
\* the drain goroutine, B and the pool are doing
C10_CloseDoesNotWait ==
  /\ "Close" \notin retDiff
  /\ \A c \in Conns : \A r \in Closers :
        /\ pc[c][r] = "oc_set" => ENABLED CloseSet(c, r)
        /\ pc[c][r] = "oc_A" => ENABLED CloseA(c, r)

\* C10 happens: a Close has returned, A is closed, and its drain goroutine
\* still waits in its select: B is open, has not reached end-of-stream, and
\* the instance is not in the pool
C10_Witness ==
  \E r \in Closers :
     /\ pc[1][r] = AfterClose(r)
     /\ dPc[1][r] = "wait" /\ dCopy[1][r] = "run"
     /\ aState[1] = "closed"
     /\ bState[1] = "open" /\ ~bEOF[1] /\ bCloses[1] = 0
     /\ pool[outTee[1]] = 0

\* C11: after Close, B is hard-closed and the instance is put into the
\* pool: once a connection on a Tee has ended (its handler returned, its
\* pump CS finished) and no drain goroutine of any connection is still
\* running, the B stream of that connection has been closed
C11_BClosedOnceDrained ==
  \A c \in Conns :
     (/\ outTee[c] # 0 /\ pc[c]["H"] = "ret" /\ pc[c]["CS"] = "done"
      /\ \A k \in Conns : \A r \in Closers : dPc[k][r] \in {"none", "done"})
     => bState[c] = "closed"

\* C12: while B accepts every write without error, the bytes delivered to
\* B are a prefix of the bytes the client wrote, under every interleaving
\* of Tee.Write with the flush goroutines it starts
C12_BGetsClientBytes ==
  \A c \in Conns :
     (bState[c] = "open" /\ ~bEOF[c] /\ ~bufErr[c])
     => IsPrefix(bRecv[c], CliBytes(c, cliSent[c]))

\* C13: every instance held by the pool is closed, with its A stream closed
\* and its B stream closed, is held once, and no pump of a connection is
\* still copying through it
C13_PooledIsClosed ==
  \A t \in Tees :
     pool[t] > 0
     => /\ pool[t] = 1
        /\ tClosed[t]
        /\ aState[tA[t]] = "closed"
        /\ bState[tB[t]] = "closed"
        /\ \A c \in Conns :
              outTee[c] = t
              => /\ pc[c]["CS"] \notin {"rd", "wbuf", "wblk", "wa"}
                 /\ pc[c]["SC"] \notin {"rd", "rdwait", "wr"}

\* C14: no Tee.Read and no Tee.Write is started on an instance whose flag
\* t.closed is set: every step in which a pump calls Tee.Read or Tee.Write
\* is taken on an instance that is not closed
C14_NoReadWriteOnceClosed ==
  [][\A c \in Conns :
        ((SCRead(c) \/ CSBufWrite(c)) /\ outTee[c] # 0)
        => ~tClosed[outTee[c]]]_vars

\* C15: no task of a connection stays blocked once the connection has
\* ended: when the handler has returned and both pumps have called
\* wg.Done(), the goroutine that waits for the pumps and sends on c has
\* finished too
C15_WaiterEnds ==
  \A c \in Conns :
     (/\ pc[c]["H"] = "ret" /\ bDialed[c]
      /\ pc[c]["CS"] = "done" /\ pc[c]["SC"] = "done" /\ wg[c] = 0)
     => pc[c]["W"] = "done"

\* C16: when the pump CS has found its source at end-of-stream and has
\* closed both ends, the other pump is not left blocked: while the handler
\* still waits in its select, the pump SC is not in a Read on an A stream
\* that is open and silent
C16_OtherPumpUnblocked ==
  \A c \in Conns :
     (pc[c]["H"] = "select" /\ pc[c]["CS"] = "done")
     => ~(/\ pc[c]["SC"] = "rdwait"
          /\ aState[rdA[c]] = "open" /\ ~aEOF[rdA[c]] /\ aOut[rdA[c]] = <<>>)

\* C17: the scratch area garbage is accessed by the tasks of one connection
\* at a time: the goroutines `go t.b.Read(garbage[0:len(p)])` that are in a
\* Read into garbage belong to one connection
C17_ScratchOfOneConnection ==
  \A j, k \in Conns : (bReaders[j] > 0 /\ bReaders[k] > 0) => j = k

\* C18: Tee.Read completes without a fault for a buffer of any length
C18_ReadAnyLength ==
  \A c \in Conns : pc[c]["SC"] # "panic"

\* C19: the connect timeout of the dial to A is at most a small multiple
\* (ten times) of the per-connection timeout, so the time a connection is
\* held before HandleTCP starts is at most that multiple plus the B-dial
\* deadline
C19_DialABounded ==
  \A c \in Conns :
     /\ pc[c]["H"] \in {"dialB", "abort"} => ConnectTime(c) <= 10 * timeout
     /\ ConnectTime(c) <= 10 * timeout + deadline

\* C20: the B stream a drain goroutine reads from and the B stream it
\* closes are the stream that was attached to the Tee when Close started
\* that goroutine
C20_DrainOwnB ==
  \A c \in Conns : \A r \in Closers :
     /\ dCopy[c][r] = "run" => dCopyB[c][r] = dB[c][r]
     /\ dPc[c][r] = "close" => tB[dTee[c][r]] = dB[c][r]

====
